---- MODULE Spec2Model ----
(***************************************************************************)
(* Model of packing_your_dropbox/main.py: the Box and Package classes.     *)
(* Box objects live in a heap (width/height indexed by object id), because *)
(* Package compares boxes by identity and Box.rotate mutates in place.     *)
(* Spec takes every call of Box and Package as one step.  SpecSteps takes   *)
(* a shake_down pass one statement at a time, for what holds inside a pass;*)
(* the program is single threaded, so nothing else runs during a pass.     *)
(***************************************************************************)
EXTENDS Integers, Sequences, FiniteSets

\* Bounds of the model.
MaxBoxes == 3      \* Box objects ever constructed
MaxDim == 2        \* largest width/height handed to the Box constructor

VARIABLES
    nobj,       \* number of Box objects constructed so far (ids 1..nobj)
    width,      \* Box._width of every constructed object
    height,     \* Box._height of every constructed object
    boxes,      \* Package._boxes: sequence of Box ids
    pack_size,  \* Package._pack_size
    G,          \* Package.G
    Grb,        \* the rb object referenced from G (<<>> when there is none)
    pc,         \* "idle", or the position inside shake_down: "loop", "assign"
    i,          \* shake_down: index of nb in _boxes (loop variable)
    t,          \* shake_down: local t
    rb,         \* shake_down: local rb, a Box object private to the pass
    call        \* the last call made by the client: what, and how it ended

vars == <<nobj, width, height, boxes, pack_size, G, Grb, pc, i, t, rb, call>>

None == <<>>

\* ---------------------------------------------------------------- values
\* Raw constructor arguments: <<"int", n>> is the int n, <<"float", n>> is
\* the float n + 0.5 and <<"str", 0>> is a string.
RawValues ==
    {<<"int", n>> : n \in -1..MaxDim} \cup {<<"float", -1>>, <<"float", 1>>, <<"str", 0>>}

\* Python 2's  v <= 0 : a float n + 0.5 is <= 0 iff n < 0; a str is never
\* <= an int (numbers order before every other type).
LeqZero(v) ==
    IF v[1] = "int" THEN v[2] <= 0
    ELSE IF v[1] = "float" THEN v[2] < 0
    ELSE FALSE

IsInt(v) == v[1] = "int"

abs(x) == IF x < 0 THEN -x ELSE x

Objects == 1..nobj

\* Arguments a client can hand to add_box / remove_box: a constructed Box,
\* or 0 for any value that is not a Box.
Args == 0..nobj

IsBox(x) == x \in Objects

\* ---------------------------------------------------------------- Box
SQUARE_SHAPE == 0
HORIZONTAL_SHAPE == 1
VERTICAL_SHAPE == 2

\* shape with the square case folded into the horizontal one
shape_two_valued(b) ==
    IF width[b] >= height[b] THEN HORIZONTAL_SHAPE ELSE VERTICAL_SHAPE

shape(b) ==
    IF width[b] > height[b] THEN HORIZONTAL_SHAPE
    ELSE IF width[b] < height[b] THEN VERTICAL_SHAPE
    ELSE SQUARE_SHAPE

area(b) == width[b] * height[b]

Idle == pc = "idle"

PackageUnchanged == UNCHANGED <<boxes, pack_size, G, Grb, pc, i, t, rb>>

\* Box.__init__ that tests width twice and never height
BoxInit_width_only(w, h) ==
    /\ Idle
    /\ nobj < MaxBoxes
    /\ IF LeqZero(w) \/ ~IsInt(w) \/ LeqZero(w) \/ ~IsInt(w)
       THEN /\ call' = [op |-> "Box", raised |-> "TypeError", ret |-> 0]
            /\ UNCHANGED <<nobj, width, height>>
       ELSE /\ nobj' = nobj + 1
            /\ width' = [b \in 1..(nobj + 1) |-> IF b = nobj + 1 THEN w[2] ELSE width[b]]
            /\ height' = [b \in 1..(nobj + 1) |-> IF b = nobj + 1 THEN h[2] ELSE height[b]]
            /\ call' = [op |-> "Box", raised |-> "none", ret |-> nobj + 1]
    /\ PackageUnchanged

\* Box.__init__(w, h)
BoxInit(w, h) ==
    /\ Idle
    /\ nobj < MaxBoxes
    /\ IF LeqZero(w) \/ ~IsInt(w) \/ LeqZero(h) \/ ~IsInt(h)
       THEN /\ call' = [op |-> "Box", raised |-> "TypeError", ret |-> 0]
            /\ UNCHANGED <<nobj, width, height>>
       ELSE /\ nobj' = nobj + 1
            /\ width' = [b \in 1..(nobj + 1) |-> IF b = nobj + 1 THEN w[2] ELSE width[b]]
            /\ height' = [b \in 1..(nobj + 1) |-> IF b = nobj + 1 THEN h[2] ELSE height[b]]
            /\ call' = [op |-> "Box", raised |-> "none", ret |-> nobj + 1]
    /\ PackageUnchanged

\* rotate that assigns the two fields one after the other
rotate_sequential(b) ==
    /\ Idle
    /\ b \in Objects
    /\ width' = [width EXCEPT ![b] = height[b]]
    /\ height' = [height EXCEPT ![b] = height[b]]
    /\ call' = [op |-> "rotate", raised |-> "none", ret |-> 0]
    /\ UNCHANGED nobj
    /\ PackageUnchanged

\* Box.rotate()
rotate(b) ==
    /\ Idle
    /\ b \in Objects
    /\ width' = [width EXCEPT ![b] = height[b]]
    /\ height' = [height EXCEPT ![b] = width[b]]
    /\ call' = [op |-> "rotate", raised |-> "none", ret |-> 0]
    /\ UNCHANGED nobj
    /\ PackageUnchanged

\* ---------------------------------------------------------------- Package
\* The join tree: a Python tuple (a, b, t) is <<a, b, t>>; a leaf is a
\* reference to a Box object: <<"box", id>> for a box of the heap and
\* <<"rb", 0>> for the rb object of the pass that built the tree.
BoxRef(b) == <<"box", b>>
RbRef == <<"rb", 0>>

\* isinstance(a, tuple)
IsTuple(a) == Len(a) = 3

\* a.width / a.height of a leaf; r is the <<width, height>> of the rb object
RefWidth(a, r) == IF a[1] = "rb" THEN r[1] ELSE width[a[2]]
RefHeight(a, r) == IF a[1] = "rb" THEN r[2] ELSE height[a[2]]

max(x, y) == IF x >= y THEN x ELSE y

\* the width of a join counting a column between the two parts
JoinWidth_gap(wa, wb, ty) == IF ty = "right" THEN wa + wb + 1 ELSE max(wa, wb)

\* lines 197-202: the width of a join from the widths of its two parts
JoinWidth(wa, wb, ty) == IF ty = "right" THEN wa + wb ELSE max(wa, wb)

\* lines 215-220: the height of a join from the heights of its two parts
JoinHeight(ha, hb, ty) == IF ty = "right" THEN max(ha, hb) ELSE ha + hb

RECURSIVE rec_width(_, _, _, _)
rec_width(a, b, ty, r) ==
    LET wa == IF IsTuple(a) THEN rec_width(a[1], a[2], a[3], r) ELSE RefWidth(a, r)
        wb == IF IsTuple(b) THEN rec_width(b[1], b[2], b[3], r) ELSE RefWidth(b, r)
    IN  JoinWidth(wa, wb, ty)

RECURSIVE rec_height(_, _, _, _)
rec_height(a, b, ty, r) ==
    LET ha == IF IsTuple(a) THEN rec_height(a[1], a[2], a[3], r) ELSE RefHeight(a, r)
        hb == IF IsTuple(b) THEN rec_height(b[1], b[2], b[3], r) ELSE RefHeight(b, r)
    IN  JoinHeight(ha, hb, ty)

\* list.sort(key=area) is stable: an element moves left only past elements
\* of strictly larger area.
RECURSIVE InsertByArea(_, _)
InsertByArea(s, b) ==
    IF s = <<>> THEN <<b>>
    ELSE IF area(s[Len(s)]) > area(b)
         THEN Append(InsertByArea(SubSeq(s, 1, Len(s) - 1), b), s[Len(s)])
         ELSE Append(s, b)

RECURSIVE SortByArea(_)
SortByArea(s) ==
    IF s = <<>> THEN <<>>
    ELSE InsertByArea(SortByArea(SubSeq(s, 1, Len(s) - 1)), s[Len(s)])

InList(b, s) == \E k \in 1..Len(s) : s[k] = b

\* list.remove(b): drops the first occurrence
RECURSIVE Remove(_, _)
Remove(s, b) ==
    IF s = <<>> THEN <<>>
    ELSE IF s[1] = b THEN Tail(s)
    ELSE <<s[1]>> \o Remove(Tail(s), b)

\* lines 238-245: the first join, of nb (or rb) with cb
FirstJoin(nb, cb, dw, dh, rdw, rdh) ==
    IF dw >= dh /\ dw >= rdw THEN <<BoxRef(nb), BoxRef(cb), "right">>
    ELSE IF dw >= rdw THEN <<RbRef, BoxRef(cb), "right">>
    ELSE IF dh >= rdh THEN <<BoxRef(nb), BoxRef(cb), "bottom">>
    ELSE <<RbRef, BoxRef(cb), "bottom">>

\* lines 254-261: a later join, of the tree with nb (or rb)
LaterJoin(tr, nb, dw, dh, rdw, rdh) ==
    IF dw >= dh /\ dw >= rdw THEN <<tr, BoxRef(nb), "right">>
    ELSE IF dw >= rdw THEN <<tr, RbRef, "right">>
    ELSE IF dh >= rdh THEN <<tr, BoxRef(nb), "bottom">>
    ELSE <<tr, RbRef, "bottom">>

\* lines 234-235 : rb = Box(nb.width, nb.height); rb.rotate()
NewRb(nb) == <<height[nb], width[nb]>>

\* line 251 : rb.rotate(), on the rb object made in the first iteration
RotatedRb(r) == <<r[2], r[1]>>

\* lines 230-261: the body of  for nb in self._boxes[1:]  for nb = bs[k],
\* from the locals t = tr and rb = r; the locals after it.
LoopBody(bs, k, tr, r) ==
    LET cb == bs[1]
        nb == bs[k]
    IN  IF tr = None
        THEN LET dw == abs(width[cb] - width[nb])
                 dh == abs(height[cb] - height[nb])
                 r1 == NewRb(nb)
                 rdw == abs(width[cb] - r1[1])
                 rdh == abs(height[cb] - r1[2])
             IN  [t |-> FirstJoin(nb, cb, dw, dh, rdw, rdh), rb |-> r1]
        ELSE LET w == rec_width(tr[1], tr[2], tr[3], r)
                 h == rec_height(tr[1], tr[2], tr[3], r)
                 dw == abs(w - width[nb])
                 dh == abs(h - height[nb])
                 r1 == RotatedRb(r)
                 rdw == abs(w - r1[1])
                 rdh == abs(h - r1[2])
             IN  [t |-> LaterJoin(tr, nb, dw, dh, rdw, rdh), rb |-> r1]

\* lines 229-261: the loop from nb = bs[k] on; the locals when it ends
RECURSIVE RunLoop(_, _, _, _)
RunLoop(bs, k, tr, r) ==
    IF k > Len(bs) THEN [t |-> tr, rb |-> r]
    ELSE LET n == LoopBody(bs, k, tr, r) IN RunLoop(bs, k + 1, n.t, n.rb)

RECURSIVE Leaves(_)
Leaves(a) == IF IsTuple(a) THEN Leaves(a[1]) \o Leaves(a[2]) ELSE <<a>>

HasRb(tr) == tr # None /\ InList(RbRef, Leaves(tr))

\* The rb object of a pass lives on after it only if the tree references it.
KeptRb(tr, r) == IF HasRb(tr) THEN r ELSE None

Locals == <<pc, i, t, rb>>

\* shake_down that leaves _pack_size alone when the package is empty
shake_down_keep_size(bs) ==
    /\ IF bs = <<>>
       THEN pack_size' = pack_size /\ UNCHANGED <<G, Grb>>
       ELSE IF Len(bs) = 1
       THEN pack_size' = area(bs[1]) /\ UNCHANGED <<G, Grb>>
       ELSE LET end == RunLoop(bs, 2, None, None)
            IN  /\ pack_size' = pack_size
                /\ G' = end.t
                /\ Grb' = KeptRb(end.t, end.rb)
    /\ UNCHANGED Locals

\* Package.shake_down() on the box list bs, as one step (lines 222-262)
shake_down(bs) ==
    /\ IF bs = <<>>
       THEN pack_size' = 0 /\ UNCHANGED <<G, Grb>>
       ELSE IF Len(bs) = 1
       THEN pack_size' = area(bs[1]) /\ UNCHANGED <<G, Grb>>
       ELSE LET end == RunLoop(bs, 2, None, None)
            IN  /\ pack_size' = pack_size
                /\ G' = end.t
                /\ Grb' = KeptRb(end.t, end.rb)
    /\ UNCHANGED Locals

\* add_box, lines 169-174: the checks, the append and the sort
add_box_list(x) ==
    IF ~IsBox(x)
    THEN /\ call' = [op |-> "add_box", raised |-> "TypeError", ret |-> 0]
         /\ UNCHANGED boxes
    ELSE IF InList(x, boxes)
    THEN /\ call' = [op |-> "add_box", raised |-> "ValueError", ret |-> 0]
         /\ UNCHANGED boxes
    ELSE /\ boxes' = SortByArea(Append(boxes, x))
         /\ call' = [op |-> "add_box", raised |-> "none", ret |-> 0]

\* remove_box, lines 178-182: the checks and the removal
remove_box_list(x) ==
    IF ~IsBox(x)
    THEN /\ call' = [op |-> "remove_box", raised |-> "TypeError", ret |-> 0]
         /\ UNCHANGED boxes
    ELSE IF ~InList(x, boxes)
    THEN /\ call' = [op |-> "remove_box", raised |-> "ValueError", ret |-> 0]
         /\ UNCHANGED boxes
    ELSE /\ boxes' = Remove(boxes, x)
         /\ call' = [op |-> "remove_box", raised |-> "none", ret |-> 0]

\* Package.add_box(x): shake_down runs unless a check raised
add_box(x) ==
    /\ Idle
    /\ add_box_list(x)
    /\ IF call'.raised = "none" THEN shake_down(boxes')
       ELSE UNCHANGED <<pack_size, G, Grb, pc, i, t, rb>>
    /\ UNCHANGED <<nobj, width, height>>

\* remove_box that forgets to call shake_down
remove_box_no_shake(x) ==
    /\ Idle
    /\ remove_box_list(x)
    /\ UNCHANGED <<pack_size, G, Grb, pc, i, t, rb>>
    /\ UNCHANGED <<nobj, width, height>>

\* remove_box that tolerates a box that is not in the package
remove_box_lenient(x) ==
    /\ Idle
    /\ IF ~IsBox(x)
       THEN /\ call' = [op |-> "remove_box", raised |-> "TypeError", ret |-> 0]
            /\ UNCHANGED <<boxes, pack_size, G, Grb, pc, i, t, rb>>
       ELSE /\ boxes' = Remove(boxes, x)
            /\ call' = [op |-> "remove_box", raised |-> "none", ret |-> 0]
            /\ shake_down(boxes')
    /\ UNCHANGED <<nobj, width, height>>

\* Package.remove_box(x): shake_down runs unless a check raised
remove_box(x) ==
    /\ Idle
    /\ remove_box_list(x)
    /\ IF call'.raised = "none" THEN shake_down(boxes')
       ELSE UNCHANGED <<pack_size, G, Grb, pc, i, t, rb>>
    /\ UNCHANGED <<nobj, width, height>>

\* Package.area
Package_area == pack_size

Init ==
    /\ nobj = 0
    /\ width = <<>>
    /\ height = <<>>
    /\ boxes = <<>>
    /\ pack_size = 0
    /\ G = None
    /\ Grb = None
    /\ pc = "idle"
    /\ i = 0
    /\ t = None
    /\ rb = None
    /\ call = [op |-> "Package", raised |-> "none", ret |-> 0]

\* The operations of Box and Package, each call one step.
Next ==
    \/ \E w \in RawValues, h \in RawValues : BoxInit(w, h)
    \/ \E b \in Objects : rotate(b)
    \/ \E x \in Args : add_box(x)
    \/ \E x \in Args : remove_box(x)

Spec == Init /\ [][Next]_vars

\* The Box class alone: construction and rotate().
NextBox ==
    \/ \E w \in RawValues, h \in RawValues : BoxInit(w, h)
    \/ \E b \in Objects : rotate(b)

SpecBox == Init /\ [][NextBox]_vars

\* ------------------------------------------------- shake_down, step by step
\* The same program with a shake_down pass over two or more boxes taken one
\* statement at a time: the call enters the loop, every iteration is a step,
\* and the assignment of self.G ends the pass.  Nothing else runs meanwhile.

\* shake_down, lines 222-228: the branches, up to the loop's first iteration
shake_down_enter(bs) ==
    IF bs = <<>>
    THEN pack_size' = 0 /\ UNCHANGED <<G, Grb, pc, i, t, rb>>
    ELSE IF Len(bs) = 1
    THEN pack_size' = area(bs[1]) /\ UNCHANGED <<G, Grb, pc, i, t, rb>>
    ELSE /\ pc' = "loop" /\ i' = 2 /\ t' = None /\ rb' = None
         /\ UNCHANGED <<pack_size, G, Grb>>

\* add_box up to the loop of shake_down
add_box_enter(x) ==
    /\ Idle
    /\ add_box_list(x)
    /\ IF call'.raised = "none" THEN shake_down_enter(boxes')
       ELSE UNCHANGED <<pack_size, G, Grb, pc, i, t, rb>>
    /\ UNCHANGED <<nobj, width, height>>

\* remove_box up to the loop of shake_down
remove_box_enter(x) ==
    /\ Idle
    /\ remove_box_list(x)
    /\ IF call'.raised = "none" THEN shake_down_enter(boxes')
       ELSE UNCHANGED <<pack_size, G, Grb, pc, i, t, rb>>
    /\ UNCHANGED <<nobj, width, height>>

\* shake_down, lines 229-261: one iteration of  for nb in self._boxes[1:]
ShakeLoop ==
    /\ pc = "loop"
    /\ LET n == LoopBody(boxes, i, t, rb)
       IN  t' = n.t /\ rb' = n.rb
    /\ i' = i + 1
    /\ pc' = IF i = Len(boxes) THEN "assign" ELSE "loop"
    /\ UNCHANGED <<nobj, width, height, boxes, pack_size, G, Grb, call>>

\* shake_down, line 262: self.G = t, and the pass returns
ShakeAssign ==
    /\ pc = "assign"
    /\ G' = t
    /\ Grb' = KeptRb(t, rb)
    /\ pc' = "idle"
    /\ i' = 0
    /\ t' = None
    /\ rb' = None
    /\ UNCHANGED <<nobj, width, height, boxes, pack_size, call>>

NextSteps ==
    \/ \E w \in RawValues, h \in RawValues : BoxInit(w, h)
    \/ \E b \in Objects : rotate(b)
    \/ \E x \in Args : add_box_enter(x)
    \/ \E x \in Args : remove_box_enter(x)
    \/ ShakeLoop
    \/ ShakeAssign

SpecSteps == Init /\ [][NextSteps]_vars

\* ---------------------------------------------------------------- claims
min(x, y) == IF x <= y THEN x ELSE y

\* The dimensions of a leaf, up to rotation: <<smaller, larger>>.
LeafShape(a, r) ==
    <<min(RefWidth(a, r), RefHeight(a, r)), max(RefWidth(a, r), RefHeight(a, r))>>

BoxShape(b) == <<min(width[b], height[b]), max(width[b], height[b])>>

\* The package is at rest with an arrangement built for its current boxes.
Packed == Idle /\ Len(boxes) >= 2

total_width == rec_width(G[1], G[2], G[3], Grb)
total_height == rec_height(G[1], G[2], G[3], Grb)

\* C1: after packing two or more boxes the leaves of G correspond one-to-one
\* to the package's boxes: as many leaves as boxes, and for every pair of
\* dimensions (up to rotation) as many leaves as boxes carry it.
C1_LeavesMatchBoxes ==
    Packed =>
        LET ls == Leaves(G)
        IN  /\ Len(ls) = Len(boxes)
            /\ \A k \in 1..Len(boxes) :
                   Cardinality({j \in 1..Len(ls) : LeafShape(ls[j], Grb) = BoxShape(boxes[k])})
                   = Cardinality({j \in 1..Len(boxes) : BoxShape(boxes[j]) = BoxShape(boxes[k])})

\* C2: with at least one box in the package, Package.area is total_width *
\* total_height of the current arrangement.
C2_AreaIsTotal ==
    (Idle /\ Len(boxes) >= 1) =>
        Package_area = IF Len(boxes) = 1 THEN width[boxes[1]] * height[boxes[1]]
                       ELSE total_width * total_height

\* C3 (as claimed): rotate() returns a new Box with the receiver's width and
\* height swapped and leaves the receiver as it was.
C3_RotateReturnsNewBox ==
    [][\A b \in Objects : rotate(b) =>
          /\ width'[b] = width[b] /\ height'[b] = height[b]
          /\ nobj' = nobj + 1 /\ call'.ret = nobj'
          /\ width'[nobj'] = height[b] /\ height'[nobj'] = width[b]]_vars

\* C3 (amended): rotate() swaps the receiver's width and height in place,
\* returns None, constructs no Box and touches no other Box.
C3_RotateInPlace ==
    [][\A b \in Objects : rotate(b) =>
          /\ width'[b] = height[b] /\ height'[b] = width[b]
          /\ nobj' = nobj /\ call'.ret = 0 /\ call'.raised = "none"
          /\ \A c \in Objects \ {b} : width'[c] = width[c] /\ height'[c] = height[c]]_vars

\* C3 witness: rotate() has just run and some box is not square.
C3_Witness ==
    call.op = "rotate" /\ \E b \in Objects : width[b] # height[b]

\* C4 (as claimed): shape is HORIZONTAL when width >= height and VERTICAL
\* otherwise, so a square box is HORIZONTAL.
C4_ShapeTwoValued ==
    \A b \in Objects :
        shape(b) = IF width[b] >= height[b] THEN HORIZONTAL_SHAPE ELSE VERTICAL_SHAPE

\* C4 (amended): shape is HORIZONTAL exactly when width > height, VERTICAL
\* exactly when width < height and SQUARE exactly when width = height; the
\* three values are distinct.
C4_ShapeThreeValued ==
    /\ Cardinality({SQUARE_SHAPE, HORIZONTAL_SHAPE, VERTICAL_SHAPE}) = 3
    /\ \A b \in Objects :
        /\ (shape(b) = HORIZONTAL_SHAPE) <=> (width[b] > height[b])
        /\ (shape(b) = VERTICAL_SHAPE) <=> (width[b] < height[b])
        /\ (shape(b) = SQUARE_SHAPE) <=> (width[b] = height[b])

\* C4 witness: a square box, a wide box and a tall box exist.
C4_Witness ==
    /\ \E b \in Objects : width[b] = height[b]
    /\ \E b \in Objects : width[b] > height[b]
    /\ \E b \in Objects : width[b] < height[b]

\* A raw constructor argument that is a positive integer.
PositiveInteger(v) == v[1] = "int" /\ v[2] > 0

C6_EmptyReportsNoArea ==
    (Idle /\ boxes = <<>>) => (call.raised = "EmptyInput" /\ Package_area \notin Int)

\* C6 (amended): a package that holds no boxes reports the area 0, and the
\* call that empties a package is a remove_box that raises no error.
C6_EmptyReportsZero ==
    /\ []((Idle /\ boxes = <<>>) => Package_area = 0)
    /\ [][(boxes # <<>> /\ boxes' = <<>>) =>
            call'.op = "remove_box" /\ call'.raised = "none" /\ Package_area' = 0]_vars

\* C6 witness: remove_box has just emptied a package that held boxes.
C6_Witness ==
    /\ Idle /\ boxes = <<>> /\ nobj >= 1
    /\ call.op = "remove_box" /\ call.raised = "none"

\* C7: whenever the package holds exactly one box (w, h), however it got
\* there, the reported area is w * h.
C7_SingleBoxArea ==
    (Idle /\ Len(boxes) = 1) => Package_area = width[boxes[1]] * height[boxes[1]]

\* C7 witness: remove_box has just left one box, not a square, of a package
\* that had held an arrangement of several.
C7_Witness ==
    /\ Idle /\ Len(boxes) = 1 /\ G # None
    /\ call.op = "remove_box" /\ call.raised = "none"
    /\ width[boxes[1]] # height[boxes[1]]

MaxOfSet(S) == CHOOSE x \in S : \A y \in S : y <= x

\* The largest width, and the largest dimension, among the package's boxes.
MaxBoxWidth == MaxOfSet({width[boxes[k]] : k \in 1..Len(boxes)})
MaxBoxDim == MaxOfSet({max(width[boxes[k]], height[boxes[k]]) : k \in 1..Len(boxes)})

\* C8 (as claimed): the total width of the arrangement never exceeds the
\* largest width among the package's boxes.
C8_WidthWithinMaxWidth ==
    Packed => total_width <= MaxBoxWidth

\* C8 (amended): the total width of the arrangement of n boxes never exceeds
\* n times the largest dimension (width or height) among the package's boxes.
C8_WidthWithinSum ==
    Packed => total_width <= Len(boxes) * MaxBoxDim

\* C8 witness: an arrangement of three boxes wider than its widest box.
C8_Witness ==
    Packed /\ Len(boxes) = 3 /\ total_width > MaxBoxWidth

\* C9 (under SpecSteps): within one shake_down pass, placing a later box never changes the
\* width or height of a leaf already in the tree, so the tree's width and
\* height before the placement still describe the placed part after it.
C9_PlacedLeavesFinal ==
    [][(pc = "loop" /\ t # None) =>
          /\ HasRb(t) => rb' = rb
          /\ \A b \in Objects : InList(BoxRef(b), Leaves(t)) =>
                 width'[b] = width[b] /\ height'[b] = height[b]
          /\ rec_width(t[1], t[2], t[3], rb') = rec_width(t[1], t[2], t[3], rb)
          /\ rec_height(t[1], t[2], t[3], rb') = rec_height(t[1], t[2], t[3], rb)]_vars

PackageState == <<boxes, pack_size, G, Grb>>

\* C10: add_box of a box already in the package, remove_box of a box not in
\* it, and either call with a non-Box raise an error and leave the box list,
\* the reported area, G and every Box as they were.
C10_RejectedLeavesUnchanged ==
    [][\A x \in Args :
          \/ add_box(x) /\ (~IsBox(x) \/ InList(x, boxes))
          \/ remove_box(x) /\ (~IsBox(x) \/ ~InList(x, boxes))
          => /\ call'.raised \in {"TypeError", "ValueError"}
             /\ PackageState' = PackageState
             /\ Package_area' = Package_area
             /\ width' = width /\ height' = height /\ pc' = "idle"]_vars

\* C10 witness: add_box has just refused a box that is already in a package
\* holding an arrangement.
C10_Witness ==
    /\ call.op = "add_box" /\ call.raised = "ValueError"
    /\ Packed /\ G # None

====
